---- MODULE Spec2Model ----
(***************************************************************************)
(* Cloister post-install (src/arch_cloister_post_install.py): the          *)
(* provisioning functions, main()'s sequence over them, and the openbox    *)
(* session that later executes the generated autostart script.             *)
(*                                                                         *)
(* Every provisioning function is an operator from the system state (and   *)
(* what the environment answers to the commands it runs) to a result       *)
(* [s, exc, ret]: the system state it leaves, the exception it raises      *)
(* ("none" when it returns) and its return value.                          *)
(***************************************************************************)
EXTENDS Integers, Sequences, FiniteSets, TLC

VARIABLES
    sys,              \* the machine: files, services, users, commands issued
    argv,             \* the command line of the current/last main() pass
    pc,               \* main(): "idle", the function about to be called, "exited"
    game_bin,         \* main() local
    is_windows_game,  \* main() local
    width,            \* main() local
    height,           \* main() local
    exit_code,        \* exit status of the last main() pass (-1: none yet)
    passStart,        \* the system state when the current/last pass began
    passes,           \* number of main() passes started
    steps,            \* the calls that returned in the current/last pass, in order
    ncalls,           \* number of direct function calls made
    call,             \* the last function invocation: who, what, observed, result
    sess              \* the openbox session executing the autostart script

vars == <<sys, argv, pc, game_bin, is_windows_game, width, height, exit_code,
          passStart, passes, steps, ncalls, call, sess>>

-----------------------------------------------------------------------------
(* Bounds *)

MaxPasses == 2
MaxCalls == 2
MaxOutputs == 2
MaxExits == 3

-----------------------------------------------------------------------------
(* Constants of the program *)

ARCADE_USER == "arcade"
GAME_DIR == "/opt/game"
RefreshRate == 60
SleepSeconds == 1

None == "none"

-----------------------------------------------------------------------------
(* Text: the output of `file -bL` as a sequence of characters, so that     *)
(* Python's substring test `needle in stdout` is computed, not assumed.    *)

Contains(needle, hay) ==
    \E i \in 1..(Len(hay) - Len(needle) + 1) :
        SubSeq(hay, i, i + Len(needle) - 1) = needle

StrPE32 == <<"P", "E", "3", "2">>
StrELF == <<"E", "L", "F">>

FilePE32 == <<"P", "E", "3", "2", " ", "e", "x", "e", " ", "G", "U", "I">>
FilePE32Plus == <<"P", "E", "3", "2", "+", " ", "e", "x", "e">>
FileELF == <<"E", "L", "F", " ", "6", "4", "-", "b", "i", "t">>
FileScript == <<"P", "O", "S", "I", "X", " ", "s", "h">>
FileDOS == <<"M", "S", "-", "D", "O", "S", " ", "e", "x", "e">>
FileCannotOpen == <<"c", "a", "n", "n", "o", "t", " ", "o", "p", "e", "n">>

(* The file system the functions are pointed at: for each path whether it  *)
(* exists (Path.exists), may be executed (os.access X_OK), what `file -bL` *)
(* prints for it, and its last component (Path.name).  The empty path is   *)
(* Python's Path(""), the current directory: it exists, while              *)
(* os.access("", X_OK) is False.                                           *)
Paths == {"", "/opt/game/game.exe", "/opt/game/game64.exe", "/opt/game/game.x86_64",
          "/opt/game/run.sh", "/opt/game/old.exe", "/opt/game/data.exe",
          "/opt/game/missing"}

FS == [p \in Paths |->
        CASE p = "" ->
              [exists |-> TRUE, exec |-> FALSE, out |-> FileCannotOpen, name |-> ""]
          [] p = "/opt/game/game.exe" ->
              [exists |-> TRUE, exec |-> TRUE, out |-> FilePE32, name |-> "game.exe"]
          [] p = "/opt/game/game64.exe" ->
              [exists |-> TRUE, exec |-> TRUE, out |-> FilePE32Plus, name |-> "game64.exe"]
          [] p = "/opt/game/game.x86_64" ->
              [exists |-> TRUE, exec |-> TRUE, out |-> FileELF, name |-> "game.x86_64"]
          [] p = "/opt/game/run.sh" ->
              [exists |-> TRUE, exec |-> TRUE, out |-> FileScript, name |-> "run.sh"]
          [] p = "/opt/game/old.exe" ->
              [exists |-> TRUE, exec |-> TRUE, out |-> FileDOS, name |-> "old.exe"]
          [] p = "/opt/game/data.exe" ->
              [exists |-> TRUE, exec |-> FALSE, out |-> FilePE32, name |-> "data.exe"]
          [] OTHER ->
              [exists |-> FALSE, exec |-> FALSE, out |-> FileCannotOpen, name |-> "missing"]]

PathName(p) == FS[p].name

-----------------------------------------------------------------------------
(* The display as xrandr reports it at the time of a query: the outputs in *)
(* report order, each connected or not, and, when it is active, the mode   *)
(* carrying the '*' mark.                                                  *)

OutputNames == <<"HDMI-1", "VGA-1", "eDP-1", "DP-1">>
NoMode == <<0, 0>>
Modes == {<<1920, 1080>>, <<1280, 720>>}
NativeMode(i) == IF i % 2 = 1 THEN <<1920, 1080>> ELSE <<1280, 720>>

OutputStates == {"disconnected", "connected", "active"}

Display(states) ==
    [i \in 1..Len(states) |->
        [name |-> OutputNames[i],
         connected |-> states[i] # "disconnected",
         current |-> IF states[i] = "active" THEN NativeMode(i) ELSE NoMode]]

Displays ==
    { Display(st) : st \in UNION { [1..n -> OutputStates] : n \in 0..MaxOutputs } }

-----------------------------------------------------------------------------
(* The machine's state and the commands issued on it *)

Services == {"sddm.service", "greetd.service"}

Cmds == {<<"systemctl disable", "sddm.service">>, <<"systemctl disable", "greetd.service">>,
         <<"systemctl enable", "sddm.service">>, <<"systemctl enable", "greetd.service">>,
         <<"bootctl set-timeout", "0">>,
         <<"useradd -m -s /bin/bash", ARCADE_USER>>, <<"passwd -d", ARCADE_USER>>,
         <<"chmod 777", "/opt/screenshots">>,
         <<"dpkg --add-architecture", "i386">>, <<"wineboot --init", "arcade/">>,
         <<"chown -R", ARCADE_USER>>}

Dpkg == <<"dpkg --add-architecture", "i386">>
Wineboot == <<"wineboot --init", "arcade/">>

NoCmd == <<"", "">>

NoScript == [present |-> FALSE, body |-> <<>>]

Pristine(users, sddm, greetd) ==
    [greetdConf |-> FALSE,
     svc |-> [n \in Services |-> IF n = "sddm.service" THEN sddm ELSE greetd],
     bootTimeout0 |-> FALSE,
     arcadeUser |-> users,
     shotsDir |-> FALSE,
     wineRoot |-> FALSE,
     wineReady |-> FALSE,
     resScript |-> NoScript,
     rcXml |-> FALSE,
     autostart |-> NoScript,
     homeChowned |-> FALSE,
     cmds |-> [c \in Cmds |-> 0]]

SvcOn == [enabled |-> TRUE, active |-> TRUE]
SvcOff == [enabled |-> FALSE, active |-> FALSE]

(* Results of a function: it returns (exc = None) or raises.               *)
UnsetInt == 0 - 1
NoRet == [b |-> FALSE, w |-> UnsetInt, h |-> UnsetInt]
Return(s) == [s |-> s, exc |-> None, ret |-> NoRet]
ReturnBool(s, b) == [s |-> s, exc |-> None, ret |-> [NoRet EXCEPT !.b = b]]
ReturnPair(s, w, h) == [s |-> s, exc |-> None, ret |-> [NoRet EXCEPT !.w = w, !.h = h]]
Raise(s, e) == [s |-> s, exc |-> e, ret |-> NoRet]

(* r1, then r2 (computed from the state r1 left), unless r1 raised *)
AndThen(r1, r2) == IF r1.exc # None THEN r1 ELSE r2

Issued(s, c) == [s EXCEPT !.cmds[c] = @ + 1]

(* run_command(command, check=True): the command is issued; a non-zero     *)
(* exit raises CalledProcessError.  The command's effect on the machine is *)
(* applied by the caller's model to the state returned.                    *)
run_command(s, c, fail) ==
    IF fail = c THEN Raise(Issued(s, c), "CalledProcessError")
    ELSE Return(Issued(s, c))

is_service_active(s, service_name) == s.svc[service_name].active

disable_service(s, service_name, fail) ==
    IF is_service_active(s, service_name)
    THEN LET r == run_command(s, <<"systemctl disable", service_name>>, fail) IN
         AndThen(r, Return([r.s EXCEPT !.svc[service_name].enabled = FALSE]))
    ELSE Return(s)

enable_service(s, service_name, fail) ==
    IF ~is_service_active(s, service_name)
    THEN LET r == run_command(s, <<"systemctl enable", service_name>>, fail) IN
         AndThen(r, Return([r.s EXCEPT !.svc[service_name].enabled = TRUE]))
    ELSE Return(s)

hide_bootloader(s, fail) ==
    LET r == run_command(s, <<"bootctl set-timeout", "0">>, fail) IN
    AndThen(r, Return([r.s EXCEPT !.bootTimeout0 = TRUE]))

user_exists(s, username) == username = ARCADE_USER /\ s.arcadeUser

create_arcade_user(s, fail) ==
    IF ~user_exists(s, ARCADE_USER)
    THEN LET r == run_command(s, <<"useradd -m -s /bin/bash", ARCADE_USER>>, fail) IN
         AndThen(r, run_command([r.s EXCEPT !.arcadeUser = TRUE],
                                <<"passwd -d", ARCADE_USER>>, fail))
    ELSE Return(s)

setup_autologin(s, fail) ==
    LET r == disable_service([s EXCEPT !.greetdConf = TRUE], "sddm.service", fail) IN
    AndThen(r, enable_service(r.s, "greetd.service", fail))

setup_screenshots_directory(s, fail) ==
    run_command([s EXCEPT !.shotsDir = TRUE], <<"chmod 777", "/opt/screenshots">>, fail)

(* argparse: the positional game_bin, --width and --height (type=int,      *)
(* None when absent, modelled as 0) and --offline (store_true), each       *)
(* option optional on its own; the namespace is returned as parsed.        *)
parse_args(s, a) ==
    [s |-> s, exc |-> None, ret |-> [b |-> a.flag, w |-> a.w, h |-> a.h]]

get_game_bin == ""

(* mutant: only the existence of the path is tested *)
validate_game_binary_exists_only(s, bin) ==
    IF ~FS[bin].exists THEN Raise(s, "SystemExit") ELSE Return(s)

validate_game_binary(s, bin) ==
    IF ~FS[bin].exists THEN Raise(s, "SystemExit")
    ELSE IF ~FS[bin].exec THEN Raise(s, "SystemExit")
    ELSE Return(s)

(* mutant: an unrecognised signature falls back to Native *)
detect_windows_binary_fallback(s, bin) ==
    LET stdout == FS[bin].out IN
    IF Contains(StrPE32, stdout) THEN ReturnBool(s, TRUE)
    ELSE ReturnBool(s, FALSE)

detect_windows_binary(s, bin) ==
    LET stdout == FS[bin].out IN
    IF Contains(StrPE32, stdout) THEN ReturnBool(s, TRUE)
    ELSE IF Contains(StrELF, stdout) THEN ReturnBool(s, FALSE)
    ELSE Raise(s, "ValueError")

(* The initialization is issued as `sudo -u arcade/ WINEPEFIX=... wineboot *)
(* --init`; whether it exits zero is the environment's answer.             *)
setup_wine_support(s, offline, fail) ==
    IF offline THEN Return(s)
    ELSE LET r == run_command(s, Dpkg, fail)
             q == run_command([r.s EXCEPT !.wineRoot = TRUE], Wineboot, fail)
         IN AndThen(r, AndThen(q, Return([q.s EXCEPT !.wineReady = TRUE])))

(* subprocess.check_output("xrandr") raises when xrandr cannot run.  The    *)
(* function then scans the lines carrying '*': its locals width and height *)
(* are read (lines 110, 112, 114) and are assigned nowhere before, so they *)
(* start unbound (UnsetInt) and reading one raises UnboundLocalError.      *)
RECURSIVE scan_lines(_, _, _, _)
scan_lines(lines, i, w, h) ==
    IF i > Len(lines)
    THEN IF w = UnsetInt \/ h = UnsetInt
         THEN [exc |-> "UnboundLocalError", w |-> w, h |-> h]
         ELSE [exc |-> None, w |-> w, h |-> h]
    ELSE IF lines[i].current # NoMode
         THEN IF w = UnsetInt THEN [exc |-> "UnboundLocalError", w |-> w, h |-> h]
              ELSE LET w2 == IF w = 0 THEN lines[i].current[1] ELSE w IN
                   IF h = UnsetInt THEN [exc |-> "UnboundLocalError", w |-> w2, h |-> h]
                   ELSE LET h2 == IF h = 0 THEN lines[i].current[2] ELSE h IN
                        scan_lines(lines, i + 1, w2, h2)
         ELSE scan_lines(lines, i + 1, w, h)

get_screen_resolution_locals(s, xr, w0, h0) ==
    IF ~xr.ok THEN Raise(s, "CalledProcessError")
    ELSE LET r == scan_lines(xr.display, 1, w0, h0) IN
         IF r.exc # None THEN Raise(s, r.exc) ELSE ReturnPair(s, r.w, r.h)

(* mutant: width and height start at 0 instead of unbound *)
get_screen_resolution_zeroed(s, xr) == get_screen_resolution_locals(s, xr, 0, 0)

get_screen_resolution(s, xr) == get_screen_resolution_locals(s, xr, UnsetInt, UnsetInt)

(* the outputs of the `except subprocess.CalledProcessError` branch *)
DefaultOutputs == <<"HDMI-1", "VGA-1", "eDP-1">>

(* `xrandr --query | grep -E " connected| disconnected" | cut -d" " -f1`,  *)
(* run with check=False: every output xrandr lists, connected or not, in   *)
(* report order; nothing when xrandr prints nothing.  With check=False     *)
(* subprocess.run raises no CalledProcessError whatever the exit status,   *)
(* so the except branch is never entered.                                  *)
query_outputs(xr) ==
    LET raisedCalledProcessError == FALSE IN
    IF raisedCalledProcessError THEN DefaultOutputs
    ELSE IF xr.ok THEN [i \in 1..Len(xr.display) |-> xr.display[i].name] ELSE <<>>

ModeEntry(output, w, h) == [output |-> output, w |-> w, h |-> h, rate |-> RefreshRate]

setup_screen_resolution(s, w, h, xr) ==
    LET outputs == query_outputs(xr) IN
    Return([s EXCEPT !.resScript =
                [present |-> TRUE,
                 body |-> [i \in 1..Len(outputs) |-> ModeEntry(outputs[i], w, h)]]])

(* A line of the autostart script: a command run in the background (&) or  *)
(* in the foreground, or the loop's `while true; do` / `done`.             *)
NoGame == [wine |-> FALSE, w |-> 0, h |-> 0, dir |-> "", name |-> ""]
Line(op, cmd, bg) == [op |-> op, cmd |-> cmd, bg |-> bg, arg |-> 0, game |-> NoGame]
Bg(cmd) == Line("run", cmd, TRUE)

(* mutant: the wine wrapper whatever the verdict *)
run_game_command_always_wine(game_name, win, w, h) ==
    [wine |-> TRUE, w |-> w, h |-> h, dir |-> GAME_DIR, name |-> game_name]

run_game_command(game_name, win, w, h) ==
    [wine |-> win,
     w |-> IF win THEN w ELSE 0,
     h |-> IF win THEN h ELSE 0,
     dir |-> GAME_DIR,
     name |-> game_name]

ChromeCmds == {"xset -dpms", "xset s off", "xset s noblank",
               "unclutter -idle 0.01 -root", "fc-cache -fv"}
ResolutionScriptCmd == "/home/arcade/.screenlayout/arcade_resolution.sh"

(* mutant: the game is run once, outside any loop *)
restart_loop_once(game) ==
    << [Line("run", "game", FALSE) EXCEPT !.game = game],
       [Line("run", "sleep", TRUE) EXCEPT !.arg = SleepSeconds] >>

restart_loop(game) ==
    << Line("while true; do", "", FALSE),
       [Line("run", "game", FALSE) EXCEPT !.game = game],
       [Line("run", "sleep", TRUE) EXCEPT !.arg = SleepSeconds],
       Line("done", "", FALSE) >>

(* mutant: the loop opens before the session commands *)
autostart_text_all_looped(game) ==
    << Line("while true; do", "", FALSE),
       Bg("xset -dpms"), Bg("xset s off"), Bg("xset s noblank"),
       Bg(ResolutionScriptCmd),
       Bg("unclutter -idle 0.01 -root"), Bg("fc-cache -fv") >>
    \o Tail(restart_loop(game))

autostart_text(game) ==
    << Bg("xset -dpms"), Bg("xset s off"), Bg("xset s noblank"),
       Bg(ResolutionScriptCmd),
       Bg("unclutter -idle 0.01 -root"), Bg("fc-cache -fv") >>
    \o restart_loop(game)

setup_openbox_autostart(s, game_name, win, w, h) ==
    Return([s EXCEPT !.autostart =
                [present |-> TRUE,
                 body |-> autostart_text(run_game_command(game_name, win, w, h))]])

setup_openbox_keybindings(s) == Return([s EXCEPT !.rcXml = TRUE])

ensure_arcade_user_owns_home(s, fail) ==
    LET r == run_command(s, <<"chown -R", ARCADE_USER>>, fail) IN
    AndThen(r, Return([r.s EXCEPT !.homeChowned = TRUE]))

-----------------------------------------------------------------------------
(* A function invocation: its arguments, what the environment answers to   *)
(* the commands it runs (the checked command that exits non-zero, if any;  *)
(* xrandr's report), and the result.                                       *)

NoXr == [ok |-> FALSE, display |-> <<>>]
XrandrAnswers == {[ok |-> TRUE, display |-> d] : d \in Displays} \cup {NoXr}

NoArgs == [path |-> "", flag |-> FALSE, w |-> 0, h |-> 0]

Invoke(fn, s, a, fail, xr) ==
    CASE fn = "parse_args" -> parse_args(s, a)
      [] fn = "enable_service" -> enable_service(s, a.path, fail)
      [] fn = "disable_service" -> disable_service(s, a.path, fail)
      [] fn = "setup_autologin" -> setup_autologin(s, fail)
      [] fn = "hide_bootloader" -> hide_bootloader(s, fail)
      [] fn = "create_arcade_user" -> create_arcade_user(s, fail)
      [] fn = "setup_screenshots_directory" -> setup_screenshots_directory(s, fail)
      [] fn = "validate_game_binary" -> validate_game_binary(s, a.path)
      [] fn = "detect_windows_binary" -> detect_windows_binary(s, a.path)
      [] fn = "setup_wine_support" -> setup_wine_support(s, a.flag, fail)
      [] fn = "get_screen_resolution" -> get_screen_resolution(s, xr)
      [] fn = "setup_screen_resolution" -> setup_screen_resolution(s, a.w, a.h, xr)
      [] fn = "setup_openbox_keybindings" -> setup_openbox_keybindings(s)
      [] fn = "setup_openbox_autostart" ->
             setup_openbox_autostart(s, PathName(a.path), a.flag, a.w, a.h)
      [] fn = "ensure_arcade_user_owns_home" -> ensure_arcade_user_owns_home(s, fail)

(* The checked commands a function may issue, and whether it asks xrandr   *)
FailChoices(fn) ==
    {NoCmd} \cup
    CASE fn = "enable_service" -> {<<"systemctl enable", n>> : n \in Services}
      [] fn = "disable_service" -> {<<"systemctl disable", n>> : n \in Services}
      [] fn = "setup_autologin" ->
             {<<"systemctl disable", "sddm.service">>, <<"systemctl enable", "greetd.service">>}
      [] fn = "hide_bootloader" -> {<<"bootctl set-timeout", "0">>}
      [] fn = "create_arcade_user" ->
             {<<"useradd -m -s /bin/bash", ARCADE_USER>>, <<"passwd -d", ARCADE_USER>>}
      [] fn = "setup_screenshots_directory" -> {<<"chmod 777", "/opt/screenshots">>}
      [] fn = "setup_wine_support" ->
             {Dpkg, Wineboot}
      [] fn = "ensure_arcade_user_owns_home" -> {<<"chown -R", ARCADE_USER>>}
      [] OTHER -> {}

XrChoices(fn) ==
    IF fn \in {"get_screen_resolution", "setup_screen_resolution"}
    THEN XrandrAnswers ELSE {NoXr}

Record(by, fn, a, fail, xr, r) ==
    [by |-> by, fn |-> fn, args |-> a, fail |-> fail, xr |-> xr,
     exc |-> r.exc, ret |-> r.ret]

NoCall == [by |-> None, fn |-> None, args |-> NoArgs, fail |-> NoCmd, xr |-> NoXr,
           exc |-> None, ret |-> NoRet]

-----------------------------------------------------------------------------
(* main() *)

Provisioning == pc \notin {"idle", "exited"}

(* The command line: the positional game_bin, --width, --height (0: not    *)
(* given) and --offline, as parse_args() would read them.                  *)
ArgvChoices ==
    {[path |-> p, flag |-> off, w |-> m[1], h |-> m[2]] :
        p \in {"/opt/game/game.exe", "/opt/game/game.x86_64", "/opt/game/run.sh",
               "/opt/game/missing"},
        off \in BOOLEAN, m \in {<<0, 0>>, <<1920, 1080>>}}

(* The process starts with some command line; main() does not call         *)
(* parse_args() and takes game_bin from get_game_bin() (line 320).         *)
MainStart ==
    /\ ~Provisioning
    /\ sess.state = "off"
    /\ ncalls = 0
    /\ passes < MaxPasses
    /\ argv' \in ArgvChoices
    /\ passes' = passes + 1
    /\ game_bin' = get_game_bin
    /\ is_windows_game' = FALSE
    /\ width' = UnsetInt
    /\ height' = UnsetInt
    /\ exit_code' = UnsetInt
    /\ passStart' = sys
    /\ steps' = <<>>
    /\ pc' = "setup_autologin"
    /\ UNCHANGED <<sys, ncalls, call, sess>>

(* the arguments main() passes at each call *)
MainArgs(fn) ==
    CASE fn \in {"validate_game_binary", "detect_windows_binary"} ->
             [NoArgs EXCEPT !.path = game_bin]
      [] fn = "setup_wine_support" ->
             \* setup_wine_support(game_bin): the path is taken as `offline`,
             \* and a string is true unless it is empty
             [NoArgs EXCEPT !.path = game_bin, !.flag = (game_bin # "")]
      [] fn = "setup_screen_resolution" -> [NoArgs EXCEPT !.w = width, !.h = height]
      [] fn = "setup_openbox_autostart" ->
             [path |-> game_bin, flag |-> is_windows_game, w |-> width, h |-> height]
      [] OTHER -> NoArgs

(* mutant: the autostart file is written before the target is validated *)
MainNext_autostart_early(fn, r) ==
    CASE fn = "setup_autologin" -> "hide_bootloader"
      [] fn = "hide_bootloader" -> "create_arcade_user"
      [] fn = "create_arcade_user" -> "setup_screenshots_directory"
      [] fn = "setup_screenshots_directory" -> "setup_openbox_autostart"
      [] fn = "setup_openbox_autostart" -> "validate_game_binary"
      [] fn = "validate_game_binary" -> "detect_windows_binary"
      [] fn = "detect_windows_binary" ->
             IF r.ret.b THEN "setup_wine_support" ELSE "get_screen_resolution"
      [] fn = "setup_wine_support" -> "get_screen_resolution"
      [] fn = "get_screen_resolution" -> "setup_screen_resolution"
      [] fn = "setup_screen_resolution" -> "setup_openbox_keybindings"
      [] fn = "setup_openbox_keybindings" -> "ensure_arcade_user_owns_home"
      [] fn = "ensure_arcade_user_owns_home" -> "exited"

(* the call that follows fn when fn returned r *)
MainNext(fn, r) ==
    CASE fn = "setup_autologin" -> "hide_bootloader"
      [] fn = "hide_bootloader" -> "create_arcade_user"
      [] fn = "create_arcade_user" -> "setup_screenshots_directory"
      [] fn = "setup_screenshots_directory" -> "validate_game_binary"
      [] fn = "validate_game_binary" -> "detect_windows_binary"
      [] fn = "detect_windows_binary" ->
             IF r.ret.b THEN "setup_wine_support" ELSE "get_screen_resolution"
      [] fn = "setup_wine_support" -> "get_screen_resolution"
      [] fn = "get_screen_resolution" -> "setup_screen_resolution"
      [] fn = "setup_screen_resolution" -> "setup_openbox_keybindings"
      [] fn = "setup_openbox_keybindings" -> "setup_openbox_autostart"
      [] fn = "setup_openbox_autostart" -> "ensure_arcade_user_owns_home"
      [] fn = "ensure_arcade_user_owns_home" -> "exited"

(* One call of main(), lines 321-337.  An exception (SystemExit(1) from    *)
(* sys.exit, or any uncaught one) ends the process with status 1; falling  *)
(* off the end of main() ends it with status 0.                            *)
MainStep ==
    /\ Provisioning
    /\ \E fail \in FailChoices(pc), xr \in XrChoices(pc) :
         LET a == MainArgs(pc)
             r == Invoke(pc, sys, a, fail, xr)
             next == IF r.exc # None THEN "exited" ELSE MainNext(pc, r)
         IN /\ sys' = r.s
            /\ call' = Record("main", pc, a, fail, xr, r)
            /\ pc' = next
            /\ is_windows_game' =
                 IF pc = "detect_windows_binary" /\ r.exc = None THEN r.ret.b
                 ELSE is_windows_game
            \* height, width = get_screen_resolution(), which returns width, height
            /\ height' = IF pc = "get_screen_resolution" /\ r.exc = None THEN r.ret.w
                         ELSE height
            /\ width' = IF pc = "get_screen_resolution" /\ r.exc = None THEN r.ret.h
                        ELSE width
            /\ exit_code' = IF r.exc # None THEN 1
                            ELSE IF next = "exited" THEN 0 ELSE exit_code
            /\ steps' = IF r.exc = None THEN Append(steps, pc) ELSE steps
    /\ UNCHANGED <<argv, game_bin, passStart, passes, ncalls, sess>>

-----------------------------------------------------------------------------
(* The functions called on their own (the module imported, not run), with  *)
(* arguments of the caller's                                               *)

ResArgs == {<<0, 0>>, <<1920, 1080>>, <<1280, 720>>, <<1920, 0>>}

ArgChoices(fn) ==
    CASE fn = "parse_args" ->
             {[path |-> "/opt/game/game.exe", flag |-> b, w |-> m[1], h |-> m[2]] :
                 b \in BOOLEAN, m \in {<<0, 0>>, <<1920, 1080>>, <<1920, 0>>, <<0, 1080>>}}
      [] fn \in {"enable_service", "disable_service"} ->
             \* the service name travels in the path field
             {[NoArgs EXCEPT !.path = n] : n \in Services}
      [] fn \in {"validate_game_binary", "detect_windows_binary"} ->
             {[NoArgs EXCEPT !.path = p] : p \in Paths}
      [] fn = "setup_wine_support" -> {[NoArgs EXCEPT !.flag = b] : b \in BOOLEAN}
      [] fn = "setup_screen_resolution" ->
             {[NoArgs EXCEPT !.w = m[1], !.h = m[2]] : m \in ResArgs}
      [] fn = "setup_openbox_autostart" ->
             {[path |-> p, flag |-> b, w |-> m[1], h |-> m[2]] :
                 p \in {"/opt/game/game.exe", "/opt/game/game.x86_64"},
                 b \in BOOLEAN, m \in Modes}
      [] OTHER -> {NoArgs}

(* A behaviour is either runs of the program or calls by an importer.      *)
Direct(fn) ==
    /\ passes = 0
    /\ sess.state = "off"
    /\ ncalls < MaxCalls
    /\ ncalls' = ncalls + 1
    /\ \E a \in ArgChoices(fn), fail \in FailChoices(fn), xr \in XrChoices(fn) :
         LET r == Invoke(fn, sys, a, fail, xr)
         IN /\ sys' = r.s
            /\ call' = Record("direct", fn, a, fail, xr, r)
    /\ UNCHANGED <<argv, pc, game_bin, is_windows_game, width, height, exit_code,
                   passStart, passes, steps, sess>>

CallParseArgs == Direct("parse_args")
CallEnableService == Direct("enable_service")
CallDisableService == Direct("disable_service")
CallSetupAutologin == Direct("setup_autologin")
CallValidateGameBinary == Direct("validate_game_binary")
CallDetectWindowsBinary == Direct("detect_windows_binary")
CallSetupWineSupport == Direct("setup_wine_support")
CallGetScreenResolution == Direct("get_screen_resolution")
CallSetupScreenResolution == Direct("setup_screen_resolution")
CallSetupOpenboxAutostart == Direct("setup_openbox_autostart")

-----------------------------------------------------------------------------
(* The openbox session of the arcade user: it executes the autostart       *)
(* script line by line.  A background command (&) is started and the       *)
(* script goes on; a foreground command is waited for.                     *)

ExitStatuses == {"0", "1", "SIGSEGV"}

SessOff ==
    [state |-> "off", script |-> <<>>, ip |-> 0, launches |-> 0, exits |-> 0,
     lastStatus |-> None, game |-> NoGame,
     started |-> [c \in ChromeCmds \cup {ResolutionScriptCmd} |-> 0],
     sleeps |-> 0]

SessionStart ==
    /\ ~Provisioning
    /\ sess.state = "off"
    /\ sys.autostart.present
    /\ sess' = [SessOff EXCEPT !.state = "exec", !.script = sys.autostart.body, !.ip = 1]
    /\ UNCHANGED <<sys, argv, pc, game_bin, is_windows_game, width, height, exit_code,
                   passStart, passes, steps, ncalls, call>>

(* the `while` line a `done` at position i closes *)
LoopHead(script, i) ==
    CHOOSE j \in 1..i : /\ script[j].op = "while true; do"
                        /\ \A k \in (j + 1)..(i - 1) : script[k].op # "while true; do"

SessionStep ==
    /\ sess.state = "exec"
    /\ LET i == sess.ip
           ln == sess.script[i]
       IN IF i > Len(sess.script)
          THEN sess' = [sess EXCEPT !.state = "finished"]
          ELSE CASE ln.op = "while true; do" -> sess' = [sess EXCEPT !.ip = i + 1]
                 [] ln.op = "done" -> sess' = [sess EXCEPT !.ip = LoopHead(sess.script, i)]
                 [] ln.op = "run" /\ ln.bg /\ ln.cmd = "sleep" ->
                        sess' = [sess EXCEPT !.sleeps = @ + 1, !.ip = i + 1]
                 [] ln.op = "run" /\ ln.bg /\ ln.cmd # "sleep" ->
                        sess' = [sess EXCEPT !.started[ln.cmd] = @ + 1, !.ip = i + 1]
                 [] ln.op = "run" /\ ~ln.bg /\ ln.cmd = "sleep" ->
                        sess' = [sess EXCEPT !.state = "sleeping"]
                 [] ln.op = "run" /\ ~ln.bg /\ ln.cmd # "sleep" ->
                        sess' = [sess EXCEPT !.state = "running", !.game = ln.game,
                                             !.launches = @ + 1]
    /\ UNCHANGED <<sys, argv, pc, game_bin, is_windows_game, width, height, exit_code,
                   passStart, passes, steps, ncalls, call>>

(* the game process ends, with any status *)
GameExit ==
    /\ sess.state = "running"
    /\ sess.exits < MaxExits
    /\ \E st \in ExitStatuses :
         sess' = [sess EXCEPT !.state = "exec", !.exits = @ + 1, !.lastStatus = st,
                              !.ip = @ + 1]
    /\ UNCHANGED <<sys, argv, pc, game_bin, is_windows_game, width, height, exit_code,
                   passStart, passes, steps, ncalls, call>>

(* a sleep ends: a background one is gone, a foreground one lets the       *)
(* script go on                                                            *)
SleepDone ==
    /\ \/ /\ sess.sleeps > 0
          /\ sess' = [sess EXCEPT !.sleeps = @ - 1]
       \/ /\ sess.state = "sleeping"
          /\ sess' = [sess EXCEPT !.state = "exec", !.ip = @ + 1]
    /\ UNCHANGED <<sys, argv, pc, game_bin, is_windows_game, width, height, exit_code,
                   passStart, passes, steps, ncalls, call>>

-----------------------------------------------------------------------------

Init ==
    /\ \E u \in BOOLEAN, sddm \in {SvcOn, SvcOff}, greetd \in {SvcOn, SvcOff} :
         sys = Pristine(u, sddm, greetd)
    /\ argv = NoArgs
    /\ pc = "idle"
    /\ game_bin = ""
    /\ is_windows_game = FALSE
    /\ width = UnsetInt
    /\ height = UnsetInt
    /\ exit_code = UnsetInt
    /\ passStart = sys
    /\ passes = 0
    /\ steps = <<>>
    /\ ncalls = 0
    /\ call = NoCall
    /\ sess = SessOff

Next ==
    \/ MainStart
    \/ MainStep
    \/ CallParseArgs
    \/ CallValidateGameBinary
    \/ CallDetectWindowsBinary
    \/ CallSetupWineSupport
    \/ CallGetScreenResolution
    \/ CallSetupScreenResolution
    \/ CallSetupOpenboxAutostart

(* The provisioning program: main() and its functions *)
Spec == Init /\ [][Next]_vars

SessionNext ==
    \/ CallSetupOpenboxAutostart
    \/ SessionStart
    \/ SessionStep
    \/ GameExit
    \/ SleepDone

(* The autostart script as setup_openbox_autostart writes it, and the      *)
(* sessions that execute it                                                *)
SessionSpec == Init /\ [][SessionNext]_vars

(* The service helpers on a machine whose two display-manager units are in *)
(* any state systemd allows: enabled or not, active or not, independently. *)
SvcStates == [enabled : BOOLEAN, active : BOOLEAN]

ServiceInit ==
    /\ \E u \in BOOLEAN, sddm \in SvcStates, greetd \in SvcStates :
         sys = Pristine(u, sddm, greetd)
    /\ argv = NoArgs
    /\ pc = "idle"
    /\ game_bin = ""
    /\ is_windows_game = FALSE
    /\ width = UnsetInt
    /\ height = UnsetInt
    /\ exit_code = UnsetInt
    /\ passStart = sys
    /\ passes = 0
    /\ steps = <<>>
    /\ ncalls = 0
    /\ call = NoCall
    /\ sess = SessOff

ServiceNext ==
    \/ CallEnableService
    \/ CallDisableService
    \/ CallSetupAutologin

ServiceSpec == ServiceInit /\ [][ServiceNext]_vars

-----------------------------------------------------------------------------
(* Vocabulary of the properties *)

(* the platform a path's signature indicates *)
IsPE(p) == FS[p].out \in {FilePE32, FilePE32Plus}
IsELF(p) == FS[p].out = FileELF
ValidTarget(p) == FS[p].exists /\ FS[p].exec

(* the output whose current mode carries the '*': the first such *)
HasPrimary(display) == \E i \in 1..Len(display) : display[i].current # NoMode
PrimaryMode(display) ==
    display[CHOOSE i \in 1..Len(display) :
                /\ display[i].current # NoMode
                /\ \A j \in 1..(i - 1) : display[j].current = NoMode].current
Connected(display) == {display[i].name : i \in {j \in 1..Len(display) : display[j].connected}}

(* a main() pass has ended; it ended on an exception of function fn *)
PassEnded == pc = "exited" /\ call.by = "main"
AbortedIn(fns) == PassEnded /\ call.exc # None /\ call.fn \in fns
NoCommandFailed == call.exc # "CalledProcessError"

(* the step to the primed state is a call of fn *)
IsCallOf(fn) == call'.fn = fn /\ (ncalls' = ncalls + 1 \/ (Provisioning /\ pc = fn))

-----------------------------------------------------------------------------
(* C1: whenever a main() pass aborts because validation, classification or *)
(* resolution failed, the system is as it was when the pass began: no file *)
(* written, no service, bootloader or user change made.                    *)
C1_AbortLeavesNoState ==
    AbortedIn({"validate_game_binary", "detect_windows_binary", "get_screen_resolution"})
        => sys = passStart

(* C2: the restart loop of the autostart script has no terminal state:     *)
(* the script never finishes, after n exits of the game (with any status)  *)
(* the game has been launched n + 1 times, and each launch is the          *)
(* invocation setup_openbox_autostart composed.                            *)
C2_RestartLoop ==
    sess.state # "off" =>
        /\ sess.state # "finished"
        /\ sess.state = "running" =>
              /\ sess.launches = sess.exits + 1
              /\ sess.game = run_game_command(PathName(call.args.path), call.args.flag,
                                              call.args.w, call.args.h)
        /\ sess.state = "exec" => sess.launches = sess.exits

C2_Witness ==
    /\ sess.state = "running"
    /\ sess.exits = MaxExits
    /\ sess.launches = MaxExits + 1
    /\ sess.lastStatus = "SIGSEGV"

(* C3: detect_windows_binary gives Foreign (True) for a PE signature,      *)
(* Native (False) for an ELF signature, and raises for any other           *)
(* signature; raised inside main() the error ends the pass with a non-zero *)
(* status, no further step being run.                                      *)
C3_Classification ==
    call.fn = "detect_windows_binary" =>
        LET p == call.args.path IN
        /\ IsPE(p) => call.exc = None /\ call.ret.b
        /\ IsELF(p) => call.exc = None /\ ~call.ret.b
        /\ ~IsPE(p) /\ ~IsELF(p) =>
              /\ call.exc = "ValueError"
              /\ call.by = "main" => pc = "exited" /\ exit_code = 1
        /\ call.by = "main" /\ call.exc = None => is_windows_game = call.ret.b

C3_Witness ==
    /\ call.fn = "detect_windows_binary"
    /\ ValidTarget(call.args.path)
    /\ FS[call.args.path].out = FileScript
    /\ call.exc = "ValueError"

(* C4: in a main() pass in which no command failed, the compatibility      *)
(* steps (multilib architecture, compatibility root, its initialization)   *)
(* were performed if and only if the target named on the command line is a *)
(* valid PE executable and --offline was not given.                        *)
WineStepsRan ==
    /\ sys.cmds[Dpkg] > passStart.cmds[Dpkg]
    /\ sys.wineRoot
    /\ sys.cmds[Wineboot] > passStart.cmds[Wineboot]

C4_CompatIffForeignOnline ==
    PassEnded /\ NoCommandFailed =>
        (WineStepsRan <=> (ValidTarget(argv.path) /\ IsPE(argv.path) /\ ~argv.flag))

(* C5: a call of setup_wine_support (not offline) on a compatibility root  *)
(* that is already initialized does not run the initialization again.      *)
C5_InitOnce ==
    [][ (IsCallOf("setup_wine_support") /\ ~call'.args.flag /\ sys.wineReady)
            => sys'.cmds[Wineboot] = sys.cmds[Wineboot] ]_vars

(* C6: a main() pass given --width W --height H (both non-zero) and a      *)
(* valid PE or ELF target, no command failing, writes a mode-set script    *)
(* whose every entry is W x H at 60 Hz.                                    *)
C6_RequestedResolutionUsed ==
    ( /\ PassEnded /\ NoCommandFailed
      /\ argv.w # 0 /\ argv.h # 0
      /\ ValidTarget(argv.path) /\ (IsPE(argv.path) \/ IsELF(argv.path)) )
    => /\ sys.resScript.present
       /\ \A i \in 1..Len(sys.resScript.body) :
             /\ sys.resScript.body[i].w = argv.w
             /\ sys.resScript.body[i].h = argv.h
             /\ sys.resScript.body[i].rate = 60

(* C7: with no resolution requested, get_screen_resolution returns the     *)
(* current mode W x H of the primary output, as (W, H).                    *)
C7_PrimaryModeDetected ==
    (call.fn = "get_screen_resolution" /\ call.xr.ok /\ HasPrimary(call.xr.display))
    => /\ call.exc = None
       /\ call.ret.w = PrimaryMode(call.xr.display)[1]
       /\ call.ret.h = PrimaryMode(call.xr.display)[2]

C9_EntriesAreConnectedOutputs ==
    (call.fn = "setup_screen_resolution" /\ call.xr.ok)
    => LET body == sys.resScript.body IN
       /\ {body[i].output : i \in 1..Len(body)} = Connected(call.xr.display)
       /\ Len(body) = Cardinality(Connected(call.xr.display))

(* C10: a main() pass ends with status 0 exactly when every step           *)
(* completed: given a valid PE or ELF target on the command line, a        *)
(* primary output and no failing command it ends with status 0 and both    *)
(* scripts written; a pass that aborted ends with a non-zero status.       *)
C10_ExitCode ==
    PassEnded =>
        /\ ( /\ ValidTarget(argv.path) /\ (IsPE(argv.path) \/ IsELF(argv.path))
             /\ NoCommandFailed
             /\ ~(call.fn = "get_screen_resolution" /\ ~HasPrimary(call.xr.display)) )
           => exit_code = 0 /\ sys.resScript.present /\ sys.autostart.present
        /\ call.exc # None => exit_code # 0

(* C11: enable_service issues no enable command for a service that is      *)
(* already enabled, disable_service no disable command for one already     *)
(* disabled, and a call that returns leaves the service enabled            *)
(* (respectively disabled), whatever its enabled and active flags were.    *)
C11_ServiceIdempotent ==
    [][ /\ (IsCallOf("enable_service") /\ call'.exc = None) =>
              LET n == call'.args.path
                  c == <<"systemctl enable", n>>
              IN /\ sys'.svc[n].enabled
                 /\ sys.svc[n].enabled => sys'.cmds[c] = sys.cmds[c]
        /\ (IsCallOf("disable_service") /\ call'.exc = None) =>
              LET n == call'.args.path
                  c == <<"systemctl disable", n>>
              IN /\ ~sys'.svc[n].enabled
                 /\ ~sys.svc[n].enabled => sys'.cmds[c] = sys.cmds[c] ]_vars

(* C12: a second main() pass on the machine a first pass left provisioned  *)
(* (arcade user existing, greetd enabled and configured), no command       *)
(* failing, ends without error, issues no second user-creation,            *)
(* compatibility-initialization or service-enable command and leaves the   *)
(* written files as they were.                                             *)
LeftProvisioned(s) ==
    /\ s.arcadeUser
    /\ s.greetdConf
    /\ s.svc["greetd.service"].enabled
    /\ s.cmds[<<"systemctl enable", "greetd.service">>] >= 1

C12_SecondPassClean ==
    (passes = 2 /\ PassEnded /\ NoCommandFailed /\ LeftProvisioned(passStart))
    => /\ exit_code = 0
       /\ \A c \in {<<"useradd -m -s /bin/bash", ARCADE_USER>>, Wineboot,
                     <<"systemctl enable", "greetd.service">>} :
             sys.cmds[c] = passStart.cmds[c]
       /\ sys.greetdConf = passStart.greetdConf
       /\ sys.resScript = passStart.resScript
       /\ sys.rcXml = passStart.rcXml
       /\ sys.autostart = passStart.autostart

(* C13: in a main() pass the target is classified only after it was        *)
(* validated: detect_windows_binary is reached only from a                 *)
(* validate_game_binary that returned, on a path that exists and is        *)
(* executable; a validation failure ends the pass with status 1, nothing   *)
(* inspected and nothing changed.                                          *)
C13_ValidatedBeforeClassified ==
    [][ /\ (Provisioning /\ pc = "validate_game_binary" /\ ~ValidTarget(game_bin))
              => /\ pc' = "exited"
                 /\ exit_code' = 1
                 /\ call'.exc = "SystemExit"
                 /\ sys' = sys
        /\ (pc' = "detect_windows_binary" /\ pc # pc')
              => /\ pc = "validate_game_binary"
                 /\ ValidTarget(game_bin)
        /\ (IsCallOf("detect_windows_binary") /\ call'.by = "main")
              => ValidTarget(call'.args.path) ]_vars

C13_Witness ==
    /\ PassEnded
    /\ call.fn = "validate_game_binary"
    /\ ~ValidTarget(call.args.path)
    /\ call.exc = "SystemExit"
    /\ exit_code = 1
    /\ sys.cmds[<<"chmod 777", "/opt/screenshots">>] >= 1

(* C14: the game is launched again only after the delay started at its     *)
(* last exit has elapsed: at no relaunch is a sleep of the loop still      *)
(* running, and the delay is the same fixed interval at each iteration.    *)
C14_DelayBeforeRelaunch ==
    [][ /\ (sess'.launches = sess.launches + 1 /\ sess.launches >= 1)
              => sess.sleeps = 0
        /\ \A i \in 1..Len(sess'.script) :
              sess'.script[i].cmd = "sleep" => sess'.script[i].arg = SleepSeconds ]_vars

(* C15: in a session each of the five chrome-suppression commands of the   *)
(* autostart script is started once, before the first launch of the game,  *)
(* and never again, however many times the game exits.                     *)
C15_ChromeOnce ==
    \A c \in ChromeCmds :
        /\ sess.started[c] <= 1
        /\ sess.launches >= 1 => sess.started[c] = 1

C15_Witness ==
    /\ sess.state = "running"
    /\ sess.exits = MaxExits
    /\ sess.launches = MaxExits + 1
    /\ \A c \in ChromeCmds : sess.started[c] = 1

(* C16: the mode-set script always has at least one entry, and when xrandr *)
(* cannot be queried or lists no output its entries are those of the       *)
(* default outputs HDMI-1, VGA-1, eDP-1.                                   *)
C16_FallbackOutputs ==
    call.fn = "setup_screen_resolution" =>
        LET body == sys.resScript.body IN
        /\ Len(body) >= 1
        /\ (~call.xr.ok \/ Len(call.xr.display) = 0) =>
              [i \in 1..Len(body) |-> body[i].output] = DefaultOutputs

(* C17: a command line giving only one of --width and --height is          *)
(* rejected by parse_args, and the resolution main() goes on with is       *)
(* either the pair given on the command line or the current mode of the    *)
(* primary output, never one dimension of each.                            *)
C17_SameSource ==
    /\ (call.fn = "parse_args" /\ (call.args.w = 0) # (call.args.h = 0))
          => call.exc # None
    /\ (call.by = "main" /\ call.fn = "get_screen_resolution" /\ call.exc = None)
          => \/ <<width, height>> = <<argv.w, argv.h>>
             \/ /\ HasPrimary(call.xr.display)
                /\ <<width, height>> = PrimaryMode(call.xr.display)

(* the calls of the current/last main() pass that returned *)
Done(fn) == \E i \in 1..Len(steps) : steps[i] = fn
DoneBefore(f, g) == \E i, j \in 1..Len(steps) : i < j /\ steps[i] = f /\ steps[j] = g

(* C18: main() reaches the writing of the autostart file only after        *)
(* validation, classification, the compatibility steps (for a Foreign      *)
(* target), resolution and the writing of the mode-set script returned in  *)
(* the same pass; a step that raises ends the pass, so a pass that a step  *)
(* before it aborted leaves the autostart file untouched.                  *)
C18_AutostartLast ==
    /\ (Provisioning /\ steps # <<>>) =>
          call.by = "main" /\ call.exc = None /\ call.fn = steps[Len(steps)]
    /\ (pc = "setup_openbox_autostart" \/ Done("setup_openbox_autostart")) =>
          /\ DoneBefore("validate_game_binary", "detect_windows_binary")
          /\ is_windows_game => DoneBefore("detect_windows_binary", "setup_wine_support")
          /\ DoneBefore("detect_windows_binary", "get_screen_resolution")
          /\ DoneBefore("get_screen_resolution", "setup_screen_resolution")
          /\ ~DoneBefore("setup_openbox_autostart", "setup_screen_resolution")
          /\ sys.resScript.present
    /\ (PassEnded /\ call.exc # None /\ call.fn # "ensure_arcade_user_owns_home") =>
          /\ ~Done("setup_openbox_autostart")
          /\ sys.autostart = passStart.autostart

C18_Witness ==
    /\ PassEnded
    /\ call.exc # None
    /\ Done("setup_screenshots_directory")
    /\ ~Done(call.fn)
    /\ ~sys.autostart.present

(* the game invocations of a script *)
GameLines(body) == {body[i].game : i \in {j \in 1..Len(body) : body[j].cmd = "game"}}

(* C19: the autostart script written by setup_openbox_autostart invokes    *)
(* "GAME_DIR/name" inside `wine explorer /desktop=Arcade,WxH` exactly when *)
(* it is given a Foreign verdict, W x H being the resolution it is given,  *)
(* and invokes it directly for a Native one; main() gives it the verdict   *)
(* of detect_windows_binary and the width and height it gave to            *)
(* setup_screen_resolution, so W x H is that of every mode-set entry.      *)
C19_WrapperIffForeign ==
    call.fn = "setup_openbox_autostart" =>
        /\ GameLines(sys.autostart.body) # {}
        /\ \A g \in GameLines(sys.autostart.body) :
              /\ g.wine = call.args.flag
              /\ g.dir = GAME_DIR /\ g.name = PathName(call.args.path)
              /\ g.wine => g.w = call.args.w /\ g.h = call.args.h
              /\ call.by = "main" =>
                    /\ Done("detect_windows_binary")
                    /\ call.args.flag = is_windows_game
                    /\ g.wine => \A i \in 1..Len(sys.resScript.body) :
                                    /\ sys.resScript.body[i].w = g.w
                                    /\ sys.resScript.body[i].h = g.h

C19_Witness ==
    /\ call.fn = "setup_openbox_autostart"
    /\ call.args.flag
    /\ \E g \in GameLines(sys.autostart.body) :
          g.wine /\ g.w = 1920 /\ g.h = 1080 /\ g.name = "game.exe"

====
